---------------------------- MODULE Spec2Model ----------------------------
(***************************************************************************)
(* SocialCast: the content script of the browser extension                 *)
(* (src/chrome-extension/content.js) and the backend's text chunker        *)
(* (chunk_text, listed in src/FINAL_SUBMISSION.md).                         *)
(*                                                                         *)
(* Texts are sequences of one-character strings.                           *)
(***************************************************************************)
EXTENDS Integers, Sequences, FiniteSets, TLC

VARIABLES
    isListening,     \* this.isListening
    extractedPosts,  \* this.extractedPosts, a Set of post ids
    audioPlayer,     \* this.audioPlayer: 0 is null, else an index of audios
    audios,          \* every Audio element created so far, in creation order
    requests,        \* the POST /posts/process requests issued so far, in order
    pending,         \* indices of the requests whose response is outstanding
    failed,          \* indices of the requests whose failure console.error reported
    rendered,        \* per post text: "never", "once" or "again", counting the
                     \* batches delivered while listening that held it
    text,            \* chunk_text: argument text
    max_size,        \* chunk_text: argument max_size
    chunks,          \* chunk_text: the returned list
    pc,              \* chunk_text: "call" before the call, "done" after, "idle" when unused
    transcript,      \* voice: the last transcript the recognition delivered
    called,          \* voice: the method handleVoiceCommand called for it
    variant,         \* popup: which of the two popup scripts is installed
    tab,             \* popup: the active tab ("none", "plain" or "script")
    recognizing,     \* content script: voiceRecognition has been started
    popup,           \* popup: the fields and the display of SocialCastPopup
    commands,        \* popup: the start/stop commands issued, each with its progress
    digests,         \* popup: the digest requests issued, each with its progress
    status,          \* popup: the last answer to a getStatus query
    candidate,       \* extraction: <<textContent>> of the last element handed to
                     \* extractPostFromElement on its own, <<>> before
    world            \* injection: the document of the tab, the class binding of
                     \* its script world and the pipeline instances built in it

vars == <<isListening, extractedPosts, audioPlayer, audios, requests, pending,
          failed, rendered, text, max_size, chunks, pc, transcript, called,
          variant, tab, recognizing, popup, commands, digests, status, candidate,
          world>>

pipelineVars == <<isListening, extractedPosts, audioPlayer, audios, requests,
                  pending, failed, rendered>>

chunkVars == <<text, max_size, chunks, pc>>

voiceVars == <<transcript, called>>

popupVars == <<variant, tab, recognizing, popup, commands, digests, status>>

\* what the content script's own steps leave alone
restVars == <<chunkVars, voiceVars, popupVars, candidate, world>>

-----------------------------------------------------------------------------
(* Bounds of the model *)

MaxTextLen == 7      \* longest text handed to chunk_text
MaxChunkSize == 3    \* largest max_size handed to chunk_text
MaxNodes == 2        \* most added nodes in one mutation batch
Duration == 2        \* length of every audio, in playback ticks
MaxCommands == 2     \* most start/stop clicks in the popup
MaxDigests == 3      \* most digest clicks in the popup
MaxInjections == 3   \* most injections into one document

-----------------------------------------------------------------------------
(* Text helpers *)

IsSpace(c) == c = " "

RECURSIVE LStrip(_)
LStrip(s) == IF s # <<>> /\ IsSpace(Head(s)) THEN LStrip(Tail(s)) ELSE s

RECURSIVE RStrip(_)
RStrip(s) ==
    IF s # <<>> /\ IsSpace(s[Len(s)]) THEN RStrip(SubSeq(s, 1, Len(s) - 1)) ELSE s

\* JavaScript String.prototype.trim and Python str.strip
Strip(s) == RStrip(LStrip(s))


-----------------------------------------------------------------------------
(* chunk_text (src/FINAL_SUBMISSION.md) *)

Alphabet == {"a", ".", " "}

RECURSIVE SplitSentences(_)
\* Python text.split('. '): cut at each ". ", left to right, separators dropped
SplitSentences(s) ==
    LET cuts == {i \in 1..(Len(s) - 1) : s[i] = "." /\ s[i + 1] = " "} IN
    IF cuts = {} THEN <<s>>
    ELSE LET i == CHOOSE j \in cuts : \A k \in cuts : j <= k IN
         <<SubSeq(s, 1, i - 1)>> \o SplitSentences(SubSeq(s, i + 2, Len(s)))

RECURSIVE SplitWords(_)
\* Python sentence.split(): the maximal runs of non-whitespace characters
SplitWords(s) ==
    LET t == LStrip(s) IN
    IF t = <<>> THEN <<>>
    ELSE LET spaces == {i \in 1..Len(t) : IsSpace(t[i])} IN
         IF spaces = {} THEN <<t>>
         ELSE LET i == CHOOSE j \in spaces : \A k \in spaces : j <= k IN
              <<SubSeq(t, 1, i - 1)>> \o SplitWords(SubSeq(t, i, Len(t)))

RECURSIVE WordLoop(_, _, _, _)
\* the loop "for word in words" over words[i..], on st = [chunks, current_chunk]
WordLoop(words, i, st, max) ==
    IF i > Len(words) THEN st
    ELSE LET word == words[i] IN
         IF Len(st.current_chunk) + Len(word) + 1 > max
         THEN IF st.current_chunk # <<>>
              THEN WordLoop(words, i + 1,
                            [chunks |-> Append(st.chunks, Strip(st.current_chunk)),
                             current_chunk |-> word \o <<" ">>], max)
              ELSE WordLoop(words, i + 1,
                            [chunks |-> Append(st.chunks,
                                               SubSeq(word, 1, IF Len(word) < max
                                                               THEN Len(word) ELSE max)),
                             current_chunk |-> st.current_chunk], max)
         ELSE WordLoop(words, i + 1,
                       [chunks |-> st.chunks,
                        current_chunk |-> st.current_chunk \o word \o <<" ">>], max)

RECURSIVE SentenceLoop(_, _, _, _)
\* the loop "for sentence in sentences" over sentences[i..]
SentenceLoop(sentences, i, st, max) ==
    IF i > Len(sentences) THEN st
    ELSE LET sentence == sentences[i] IN
         IF Len(st.current_chunk) + Len(sentence) > max
         THEN IF st.current_chunk # <<>>
              THEN SentenceLoop(sentences, i + 1,
                                [chunks |-> Append(st.chunks, Strip(st.current_chunk)),
                                 current_chunk |-> sentence], max)
              ELSE SentenceLoop(sentences, i + 1,
                                WordLoop(SplitWords(sentence), 1, st, max), max)
         ELSE SentenceLoop(sentences, i + 1,
                           [chunks |-> st.chunks,
                            current_chunk |-> st.current_chunk \o sentence], max)

\* chunk_text with the first test written "<" instead of "<="
chunk_text_strict(t, max) ==
    IF Len(t) < max THEN <<t>>
    ELSE SentenceLoop(SplitSentences(t), 1,
                      [chunks |-> <<>>, current_chunk |-> <<>>], max).chunks

chunk_text(t, max) ==
    IF Len(t) <= max THEN <<t>>
    ELSE SentenceLoop(SplitSentences(t), 1,
                      [chunks |-> <<>>, current_chunk |-> <<>>], max).chunks

ChunkTexts == UNION {[1..n -> Alphabet] : n \in 0..MaxTextLen}

-----------------------------------------------------------------------------
(* The page: element texts, selector rules, added nodes *)

currentPlatform == "twitter"

\* textContent of the post elements the feed renders
TextOf == <<
    <<" ", "a", "a", "a", "a", "a", "a", "a", "a", "a", "a", " ">>,
    <<"a", "a", "a", "a", "a", "a", "a", "a", "a", "a">>,
    <<"b", "b", "b", "b", "b", "b", "b", "b", "b", "b", "b">>,
    <<"a", "b", "a">> >>

FeedTexts == DOMAIN TextOf

CharCode == (" " :> 32) @@ ("a" :> 97) @@ ("b" :> 98)

\* one round of "hash = ((hash << 5) - hash) + char; hash = hash & hash" on the
\* 32-bit value hi * 65536 + lo (two's complement)
HashStep(h, c) ==
    LET lo == 31 * h.lo + c
        hi == 31 * h.hi + (lo \div 65536)
    IN  [hi |-> hi % 65536, lo |-> lo % 65536]

RECURSIVE HashFrom(_, _, _)
HashFrom(s, i, h) ==
    IF i > Len(s) THEN h ELSE HashFrom(s, i + 1, HashStep(h, CharCode[s[i]]))

\* Math.abs of the signed 32-bit value hi * 65536 + lo, as [hi, lo]
AbsInt32(h) ==
    IF h.hi < 32768 THEN h
    ELSE IF h.lo = 0 THEN [hi |-> 65536 - h.hi, lo |-> 0]
    ELSE [hi |-> 65535 - h.hi, lo |-> 65536 - h.lo]

generatePostId(t) ==
    <<currentPlatform, AbsInt32(HashFrom(t, 1, [hi |-> 0, lo |-> 0]))>>

MinTextLength == 10

NumRules == 3

Rules == 1..NumRules

\* An element of an added subtree: its text and the selector rules it matches
Element(t, rs) == [text |-> t, rules |-> rs]

\* An added node: the rules the node itself matches, and the matching elements
\* of its subtree in document order
Node(self, found) == [selfRules |-> self, found |-> found]

\* The added nodes the feed delivers: a subtree without posts, a wrapper around
\* one post element, a post element that two rules match, a wrapper around two
\* posts, and a node that is itself matched by the first or by the last rule
FeedNodes ==
    {Node({}, <<>>)}
    \cup {Node({}, <<Element(t, {1})>>) : t \in FeedTexts}
    \cup {Node({}, <<Element(t, {1, 2})>>) : t \in {2, 3}}
    \cup {Node({}, <<Element(2, {1}), Element(3, {3})>>)}
    \cup {Node({r}, <<Element(3, {1})>>) : r \in {1, NumRules}}

\* textContent of an added node that is itself a post element: the text of the
\* element it holds
textContent(node) == node.found[1].text

Batches == UNION {[1..n -> FeedNodes] : n \in 1..MaxNodes}

\* the batches that add one node
OneNodeBatches == {<<node>> : node \in FeedNodes}

\* Texts already on the page when the content script is constructed
InitialPages == {<<>>, <<2>>, <<3>>, <<2, 3>>}

-----------------------------------------------------------------------------
(* The content script (src/chrome-extension/content.js) *)

\* The fields of the SocialCastContentScript instance and what it has sent
this ==
    [isListening |-> isListening, extractedPosts |-> extractedPosts,
     audioPlayer |-> audioPlayer, audios |-> audios,
     requests |-> requests, pending |-> pending, failed |-> failed]

Becomes(s) ==
    /\ isListening' = s.isListening
    /\ extractedPosts' = s.extractedPosts
    /\ audioPlayer' = s.audioPlayer
    /\ audios' = s.audios
    /\ requests' = s.requests
    /\ pending' = s.pending
    /\ failed' = s.failed

\* HTMLMediaElement.pause()
PauseAudio(s, i) == [s EXCEPT !.audios[i].paused = TRUE]

\* fetch(`${backendUrl}/posts/process`, ...): the request leaves at once, the rest
\* of sendPostToBackend runs when the response arrives (Respond)
sendPostToBackend(s, content) ==
    [s EXCEPT !.requests = Append(@, [content |-> content]),
              !.pending = @ \cup {Len(s.requests) + 1}]

\* element.textContent?.trim() and generatePostId of it, per element text
TrimmedText == [t \in FeedTexts |-> Strip(TextOf[t])]

PostIdOf == [t \in FeedTexts |-> generatePostId(TrimmedText[t])]

\* an extraction that waits for the outstanding requests
extractTrimmed_blocking(s, t, postId) ==
    IF s.pending # {} THEN s
    ELSE IF Len(t) < MinTextLength THEN s
    ELSE IF postId \in s.extractedPosts THEN s
    ELSE LET recorded == [s EXCEPT !.extractedPosts = @ \cup {postId}] IN
         IF s.isListening THEN sendPostToBackend(recorded, t) ELSE recorded

\* an extraction that does not look into extractedPosts
extractTrimmed_repeating(s, t, postId) ==
    IF Len(t) < MinTextLength THEN s
    ELSE LET recorded == [s EXCEPT !.extractedPosts = @ \cup {postId}] IN
         IF s.isListening THEN sendPostToBackend(recorded, t) ELSE recorded

\* an extraction that lets a text of 9 characters pass
extractTrimmed_lenient(s, t, postId) ==
    IF Len(t) < MinTextLength - 1 THEN s
    ELSE IF postId \in s.extractedPosts THEN s
    ELSE LET recorded == [s EXCEPT !.extractedPosts = @ \cup {postId}] IN
         IF s.isListening THEN sendPostToBackend(recorded, t) ELSE recorded

\* an extraction that records a post only when it sends it
extractTrimmed_sendingOnly(s, t, postId) ==
    IF Len(t) < MinTextLength THEN s
    ELSE IF postId \in s.extractedPosts THEN s
    ELSE IF s.isListening
    THEN sendPostToBackend([s EXCEPT !.extractedPosts = @ \cup {postId}], t)
    ELSE s

\* extractPostFromElement after "const text = element.textContent?.trim()" and
\* with postId for generatePostId(text)
extractTrimmed(s, t, postId) ==
    IF Len(t) < MinTextLength THEN s
    ELSE IF postId \in s.extractedPosts THEN s
    ELSE LET recorded == [s EXCEPT !.extractedPosts = @ \cup {postId}] IN
         IF s.isListening THEN sendPostToBackend(recorded, t) ELSE recorded

\* extractPostFromElement on an element of the feed (trim and id looked up)
extractPostFromElement(s, element) ==
    extractTrimmed(s, TrimmedText[element.text], PostIdOf[element.text])

\* extractPostFromElement on an element with the given textContent
extractPostFromText(s, raw) ==
    extractTrimmed(s, Strip(raw), generatePostId(Strip(raw)))

RECURSIVE ElementLoop(_, _, _)
\* elements.forEach(element => this.extractPostFromElement(element))
ElementLoop(s, elements, i) ==
    IF i > Len(elements) THEN s
    ELSE ElementLoop(extractPostFromElement(s, elements[i]), elements, i + 1)

\* node.querySelectorAll(selector)
QuerySelectorAll(node, rule) ==
    LET hit == {i \in DOMAIN node.found : rule \in node.found[i].rules}
        F[i \in 0..Len(node.found)] ==
            IF i = 0 THEN <<>>
            ELSE IF i \in hit THEN Append(F[i - 1], node.found[i]) ELSE F[i - 1]
    IN  F[Len(node.found)]

RECURSIVE SelectorLoop(_, _, _)
\* selectors.forEach(selector => ...) from the rule-th selector on. elements is a
\* NodeList, which has no push: when the node itself matches the selector the
\* call elements.push(node) throws a TypeError that nothing catches.
SelectorLoop(s, node, rule) ==
    IF rule > NumRules THEN [state |-> s, thrown |-> FALSE]
    ELSE IF rule \in node.selfRules THEN [state |-> s, thrown |-> TRUE]
    ELSE SelectorLoop(ElementLoop(s, QuerySelectorAll(node, rule), 1), node, rule + 1)

extractPostsFromNode(s, node) == SelectorLoop(s, node, 1)

RECURSIVE AddedNodesLoop(_, _, _)
\* mutations.forEach(... addedNodes.forEach(node => extractPostsFromNode(node)))
AddedNodesLoop(s, batch, i) ==
    IF i > Len(batch) THEN s
    ELSE LET r == extractPostsFromNode(s, batch[i]) IN
         IF r.thrown THEN r.state ELSE AddedNodesLoop(r.state, batch, i + 1)

RECURSIVE SubmittedNodes(_, _, _)
\* the added nodes the callback's loop hands to extractPostsFromNode, in order
SubmittedNodes(s, batch, i) ==
    IF i > Len(batch) THEN <<>>
    ELSE LET r == extractPostsFromNode(s, batch[i]) IN
         <<i>> \o (IF r.thrown THEN <<>> ELSE SubmittedNodes(r.state, batch, i + 1))

\* the MutationObserver callback without its test of isListening
mutationCallback_unguarded(s, batch) == AddedNodesLoop(s, batch, 1)

\* the MutationObserver callback of observeDOM
mutationCallback(s, batch) ==
    IF s.isListening THEN AddedNodesLoop(s, batch, 1) ELSE s

\* a playAudio that leaves the previous audio running
playAudio_overlapping(s, request) ==
    [s EXCEPT
        !.audios = Append(@, [request |-> request, paused |-> FALSE, currentTime |-> 0]),
        !.audioPlayer = Len(s.audios) + 1]

playAudio(s, request) ==
    LET stopped == IF s.audioPlayer # 0 THEN PauseAudio(s, s.audioPlayer) ELSE s IN
    [stopped EXCEPT
        !.audios = Append(@, [request |-> request, paused |-> FALSE, currentTime |-> 0]),
        !.audioPlayer = Len(s.audios) + 1]

Outcomes == {"audio", "no_audio", "http_error", "network_error"}

\* a response that is not ok, or a fetch that rejects: both end in console.error
Failures == {"http_error", "network_error"}

\* the post id of a post text
IdOfContent(c) == PostIdOf[CHOOSE t \in FeedTexts : TrimmedText[t] = c]

\* a failure that stops the listening
responseArrives_halting(s, r, outcome) ==
    LET answered == [s EXCEPT !.pending = @ \ {r}] IN
    IF outcome = "audio" THEN playAudio(answered, r)
    ELSE IF outcome \in Failures
    THEN [answered EXCEPT !.failed = @ \cup {r}, !.isListening = FALSE]
    ELSE answered

\* a failure that forgets the post, so that it is sent again when seen again
responseArrives_forgetting(s, r, outcome) ==
    LET answered == [s EXCEPT !.pending = @ \ {r}] IN
    IF outcome = "audio" THEN playAudio(answered, r)
    ELSE IF outcome \in Failures
    THEN [answered EXCEPT !.failed = @ \cup {r},
                          !.extractedPosts = @ \ {IdOfContent(s.requests[r].content)}]
    ELSE answered

\* a response that is not ok is neither reported nor kept from the player
responseArrives_lenient(s, r, outcome) ==
    LET answered == [s EXCEPT !.pending = @ \ {r}] IN
    IF outcome \in {"audio", "http_error"} THEN playAudio(answered, r)
    ELSE IF outcome \in Failures THEN [answered EXCEPT !.failed = @ \cup {r}]
    ELSE answered

\* sendPostToBackend after "await fetch": the response to request r arrives
responseArrives(s, r, outcome) ==
    LET answered == [s EXCEPT !.pending = @ \ {r}] IN
    IF outcome = "audio" THEN playAudio(answered, r)
    ELSE IF outcome \in Failures THEN [answered EXCEPT !.failed = @ \cup {r}]
    ELSE answered

\* a start that scans the document for the posts rendered meanwhile
startListening_rescanning(s) ==
    extractPostsFromNode([s EXCEPT !.isListening = TRUE],
                         Node({}, <<Element(2, {1}), Element(3, {1})>>)).state

startListening(s) == [s EXCEPT !.isListening = TRUE]

\* a stop that leaves the player alone
stopListening_flagOnly(s) == [s EXCEPT !.isListening = FALSE]

\* a stop that forgets the posts seen
stopListening_clearing(s) ==
    LET halted == [s EXCEPT !.isListening = FALSE, !.extractedPosts = {}] IN
    IF s.audioPlayer # 0
    THEN [PauseAudio(halted, s.audioPlayer) EXCEPT !.audioPlayer = 0]
    ELSE halted

stopListening(s) ==
    LET halted == [s EXCEPT !.isListening = FALSE] IN
    IF s.audioPlayer # 0
    THEN [PauseAudio(halted, s.audioPlayer) EXCEPT !.audioPlayer = 0]
    ELSE halted

pauseListening(s) ==
    IF s.audioPlayer # 0 THEN PauseAudio(s, s.audioPlayer) ELSE s

\* audioPlayer.currentTime = audioPlayer.duration: playback has ended
skipCurrent(s) ==
    IF s.audioPlayer # 0
    THEN [s EXCEPT !.audios[s.audioPlayer].currentTime = Duration,
                   !.audios[s.audioPlayer].paused = TRUE]
    ELSE s

replayCurrent(s) ==
    IF s.audioPlayer # 0
    THEN [s EXCEPT !.audios[s.audioPlayer].currentTime = 0,
                   !.audios[s.audioPlayer].paused = FALSE]
    ELSE s

\* an Audio element that is playing advances; at its end it stops ("ended")
Playing(a) == ~a.paused /\ a.currentTime < Duration

playbackAdvances(s, i) ==
    LET t == s.audios[i].currentTime + 1 IN
    [s EXCEPT !.audios[i].currentTime = t,
              !.audios[i].paused = (t = Duration)]

\* constructor: init() -> observeDOM() scans document.body, not listening
PageNode(page) == Node({}, [i \in DOMAIN page |-> Element(page[i], {1})])

Constructed(page) ==
    extractPostsFromNode(
        [isListening |-> FALSE, extractedPosts |-> {}, audioPlayer |-> 0,
         audios |-> <<>>, requests |-> <<>>, pending |-> {}, failed |-> {}],
        PageNode(page)).state

-----------------------------------------------------------------------------
(* Voice commands of the content script *)

\* String.prototype.toLowerCase on the letters the transcripts use
ToLowerCase(str) ==
    [i \in DOMAIN str |->
        CASE str[i] = "P" -> "p"
          [] str[i] = "S" -> "s"
          [] OTHER -> str[i]]

\* String.prototype.includes
Includes(str, word) ==
    \E i \in 1..(Len(str) - Len(word) + 1) :
        SubSeq(str, i, i + Len(word) - 1) = word

KwPlay == <<"p", "l", "a", "y">>
KwStart == <<"s", "t", "a", "r", "t">>
KwPause == <<"p", "a", "u", "s", "e">>
KwStop == <<"s", "t", "o", "p">>
KwSkip == <<"s", "k", "i", "p">>
KwNext == <<"n", "e", "x", "t">>
KwReplay == <<"r", "e", "p", "l", "a", "y">>
KwRepeat == <<"r", "e", "p", "e", "a", "t">>

\* what a user may say while the recognition runs
Utterances ==
    {<<"p", "l", "e", "a", "s", "e", " ", "s", "k", "i", "p", " ", "t", "h", "i", "s", " ", "o", "n", "e">>,
     <<"s", "t", "o", "p", " ", "p", "l", "a", "y", "i", "n", "g">>,
     <<"P", "a", "u", "s", "e">>,
     <<"p", "a", "u", "s", "e">>,
     <<"s", "t", "o", "p">>,
     <<"n", "e", "x", "t">>,
     <<"p", "l", "a", "y">>,
     <<"s", "t", "a", "r", "t">>,
     <<"r", "e", "p", "l", "a", "y">>,
     <<"r", "e", "p", "e", "a", "t">>,
     <<"r", "e", "p", "l", "a", "y", " ", "t", "h", "a", "t">>,
     <<"h", "e", "l", "l", "o">>}

\* a dispatch where 'stop' ends the session instead of pausing
handleVoiceCommand_stopping(s, command) ==
    IF Includes(command, KwPlay) \/ Includes(command, KwStart)
    THEN [state |-> startListening(s), called |-> "startListening"]
    ELSE IF Includes(command, KwPause)
    THEN [state |-> pauseListening(s), called |-> "pauseListening"]
    ELSE IF Includes(command, KwStop)
    THEN [state |-> stopListening(s), called |-> "stopListening"]
    ELSE IF Includes(command, KwSkip) \/ Includes(command, KwNext)
    THEN [state |-> skipCurrent(s), called |-> "skipCurrent"]
    ELSE IF Includes(command, KwReplay) \/ Includes(command, KwRepeat)
    THEN [state |-> replayCurrent(s), called |-> "replayCurrent"]
    ELSE [state |-> s, called |-> "none"]

\* handleVoiceCommand: the state it leaves and the method it called
handleVoiceCommand(s, command) ==
    IF Includes(command, KwPlay) \/ Includes(command, KwStart)
    THEN [state |-> startListening(s), called |-> "startListening"]
    ELSE IF Includes(command, KwPause) \/ Includes(command, KwStop)
    THEN [state |-> pauseListening(s), called |-> "pauseListening"]
    ELSE IF Includes(command, KwSkip) \/ Includes(command, KwNext)
    THEN [state |-> skipCurrent(s), called |-> "skipCurrent"]
    ELSE IF Includes(command, KwReplay) \/ Includes(command, KwRepeat)
    THEN [state |-> replayCurrent(s), called |-> "replayCurrent"]
    ELSE [state |-> s, called |-> "none"]

\* recognition.onresult: the last result's transcript, lower-cased
onresult(s, heard) == handleVoiceCommand(s, ToLowerCase(heard))

-----------------------------------------------------------------------------
(* Messages to the content script (src/chrome-extension/content.js) *)

\* answers handed to sendResponse; NoResponse when the listener never calls it
Success == [success |-> TRUE]
UnknownAction == [error |-> "Unknown action"]
NoResponse == [missing |-> TRUE]
Rejected == [rejected |-> TRUE]

\* a status that counts the posts sent instead of the posts recorded
handleMessage_countingRequests(s, started, action) ==
    CASE action = "startListening" ->
            [state |-> startListening(s), recognizing |-> TRUE,
             response |-> IF started THEN NoResponse ELSE Success]
      [] action = "stopListening" ->
            [state |-> stopListening(s), recognizing |-> FALSE, response |-> Success]
      [] action = "getStatus" ->
            [state |-> s, recognizing |-> started,
             response |-> [isListening |-> s.isListening,
                           platform |-> currentPlatform,
                           postsExtracted |-> Len(s.requests)]]
      [] OTHER ->
            [state |-> s, recognizing |-> started, response |-> UnknownAction]

\* handleMessage. voiceRecognition.start() throws an InvalidStateError when the
\* recognition is already started: startListening has set the flag by then, and
\* the sendResponse after it is never reached.
handleMessage(s, started, action) ==
    CASE action = "startListening" ->
            [state |-> startListening(s), recognizing |-> TRUE,
             response |-> IF started THEN NoResponse ELSE Success]
      [] action = "stopListening" ->
            [state |-> stopListening(s), recognizing |-> FALSE, response |-> Success]
      [] action = "getStatus" ->
            [state |-> s, recognizing |-> started,
             response |-> [isListening |-> s.isListening,
                           platform |-> currentPlatform,
                           postsExtracted |-> Cardinality(s.extractedPosts)]]
      [] OTHER ->
            [state |-> s, recognizing |-> started, response |-> UnknownAction]

-----------------------------------------------------------------------------
(* Injection of the content script (the tabs.onUpdated listener of
   src/chrome-extension/popup.js and the top level of
   src/chrome-extension/content.js) *)

\* hosts of the documents a tab may show; supportedSites is matched by
\* tab.url.includes(site)
Sites == {"linkedin.com", "example.org"}
supportedSites == {"linkedin.com"}

\* a freshly loaded document: its script world has no binding and no instance
NewDocument(site, page) ==
    [site |-> site, page |-> page, declared |-> FALSE, instances |-> <<>>,
     injections |-> 0]

\* the injection is not modelled: the one instance is the state of this
NoWorld == NewDocument("", <<>>)

NoInjection == world = NoWorld

\* content.js evaluated as if its class were declared in a scope of its own:
\* every evaluation builds an instance
runContentScript_rebinding(w) ==
    [w EXCEPT !.declared = TRUE, !.instances = Append(@, Constructed(w.page))]

\* content.js evaluated in the script world of the document. Its top level
\* declares "class SocialCastContentScript": a world that already holds the
\* binding rejects the script with a SyntaxError before any statement runs;
\* otherwise the class is bound and "new SocialCastContentScript()" builds an
\* instance (observer, dedup set and message listener), scanning the page
runContentScript(w) ==
    IF w.declared THEN w
    ELSE [w EXCEPT !.declared = TRUE, !.instances = Append(@, Constructed(w.page))]

\* the chrome.tabs.onUpdated listener of the background script
onUpdated(w, changeStatus) ==
    IF changeStatus = "complete" /\ w.site \in supportedSites
    THEN [runContentScript(w) EXCEPT !.injections = @ + 1]
    ELSE w

\* a message to the tab reaches the onMessage listener of every instance
tabMessage(w, action) ==
    [w EXCEPT !.instances =
        [i \in DOMAIN @ |-> handleMessage(@[i], FALSE, action).state]]

\* a mutation batch of the document reaches the observer of every instance
documentMutates(w, batch) ==
    [w EXCEPT !.instances = [i \in DOMAIN @ |-> mutationCallback(@[i], batch)]]

-----------------------------------------------------------------------------

(* The popup: SocialCastPopup of src/chrome-extension/popup.js ("direct": it
   messages the active tab itself) and of src/unnamed/part_000 ("relayed": it
   messages the background script, which forwards to the active tab) *)

PopupVariants == {"direct", "relayed"}

Tabs == {"none", "plain", "script"}

\* SocialCastPopup.constructor and the display before any operation
NewPopup ==
    [isListening |-> FALSE, startTime |-> 0, timer |-> FALSE, loading |-> FALSE,
     error |-> "", notice |-> "", audios |-> 0, logged |-> 0]

showLoading(p, show) == [p EXCEPT !.loading = show]

showError(p, message) == [p EXCEPT !.error = message]

\* showSuccess of popup.js, showMessage of part_000
showMessage(p, message) == [p EXCEPT !.notice = message]

\* catch without the finally block: the loading indicator stays
Caught_stillLoading(p, message) ==
    showError([p EXCEPT !.logged = @ + 1], message)

\* the catch and finally blocks of an operation of the popup
Caught(p, message) ==
    showLoading(showError([p EXCEPT !.logged = @ + 1], message), FALSE)

StartFailed(v) ==
    IF v = "direct" THEN "Failed to start listening. Please refresh the page."
    ELSE "Error starting listening: Failed to start listening"

StopFailed(v) ==
    IF v = "direct" THEN "Failed to stop listening."
    ELSE "Error stopping listening: Failed to stop listening"

DigestFailed(v) ==
    IF v = "direct" THEN "Failed to generate digest. Make sure the backend is running."
    ELSE "Error generating digest"

\* a start or stop click: showLoading(true), then the first await
NewCommand(v, action) ==
    [action |-> action, stage |-> IF v = "direct" THEN "query" ELSE "toBackground",
     response |-> NoResponse, forward |-> "none", applied |-> FALSE,
     outcome |-> "pending"]

\* startListening of the popup after its awaits: n is the time of the click
popupStartResumes(p, v, n, response) ==
    IF response = Success
    THEN showLoading([p EXCEPT !.isListening = TRUE, !.startTime = n,
                               !.timer = TRUE], FALSE)
    ELSE Caught(p, StartFailed(v))

\* stopListening of the popup after its awaits. popup.js does not look at the
\* answer: only a rejected message puts it in the catch block.
popupStopResumes(p, v, response) ==
    IF (v = "direct" /\ response # Rejected) \/ (v = "relayed" /\ response = Success)
    THEN showLoading([p EXCEPT !.isListening = FALSE, !.timer = FALSE], FALSE)
    ELSE Caught(p, StopFailed(v))

popupResumes(p, v, n, command, response) ==
    IF command.action = "startListening" THEN popupStartResumes(p, v, n, response)
    ELSE popupStopResumes(p, v, response)

\* what the popup made of a command
OutcomeOf(before, after) ==
    IF after.logged > before.logged THEN "failure" ELSE "success"

DigestOutcomes == {"audio", "empty", "http_error", "network_error"}

NoPostsFound == "No posts found for digest"

\* an empty digest treated as a failure
generateDigestResumes_throwing(p, v, outcome) ==
    CASE outcome = "audio" ->
            showLoading(showMessage([p EXCEPT !.audios = @ + 1],
                                    "Daily digest generated and playing!"), FALSE)
      [] OTHER -> Caught(p, DigestFailed(v))

\* generateDigest after "await fetch"
generateDigestResumes(p, v, outcome) ==
    CASE outcome = "audio" ->
            showLoading(showMessage([p EXCEPT !.audios = @ + 1],
                                    "Daily digest generated and playing!"), FALSE)
      [] outcome = "empty" ->
            showLoading(IF v = "direct" THEN showError(p, NoPostsFound)
                        ELSE showMessage(p, NoPostsFound), FALSE)
      [] OTHER -> Caught(p, DigestFailed(v))

-----------------------------------------------------------------------------
(* Post texts and the bookkeeping of what the feed rendered *)

PostContents ==
    {TrimmedText[t] : t \in {u \in FeedTexts : Len(TrimmedText[u]) >= MinTextLength}}

\* the post texts a batch renders, anywhere in its added subtrees
ContentsOf(batch) ==
    UNION {{TrimmedText[batch[i].found[j].text] : j \in DOMAIN batch[i].found} :
              i \in DOMAIN batch} \cap PostContents

-----------------------------------------------------------------------------
(* Specification of the content script *)

CountBatch(batch) ==
    [c \in PostContents |->
        IF isListening /\ c \in ContentsOf(batch)
        THEN IF rendered[c] = "never" THEN "once" ELSE "again"
        ELSE rendered[c]]

Starts(s) ==
    /\ isListening = s.isListening
    /\ extractedPosts = s.extractedPosts
    /\ audioPlayer = s.audioPlayer
    /\ audios = s.audios
    /\ requests = s.requests
    /\ pending = s.pending
    /\ failed = s.failed
    /\ rendered = [c \in PostContents |-> "never"]

\* no chunk_text call is modelled
NoChunking ==
    /\ text = <<>>
    /\ max_size = 0
    /\ chunks = <<>>
    /\ pc = "idle"

\* the popup is closed
NoPopup ==
    /\ variant = "direct"
    /\ tab = "script"
    /\ recognizing = FALSE
    /\ popup = NewPopup
    /\ commands = <<>>
    /\ digests = <<>>
    /\ status = NoResponse

\* no element has been handed to extractPostFromElement on its own
NoCandidate == candidate = <<>>

\* the recognition has delivered nothing
NothingHeard ==
    /\ transcript = <<>>
    /\ called = "none"

Init ==
    /\ \E page \in InitialPages : Starts(Constructed(page))
    /\ NoChunking
    /\ NothingHeard
    /\ NoCandidate
    /\ NoInjection
    /\ NoPopup

MutationCallback ==
    \E batch \in Batches :
        /\ Becomes(mutationCallback(this, batch))
        /\ rendered' = CountBatch(batch)
        /\ UNCHANGED restVars

ResponseArrives ==
    \E r \in pending, outcome \in Outcomes :
        /\ Becomes(responseArrives(this, r, outcome))
        /\ UNCHANGED <<rendered, restVars>>

StartListening ==
    /\ Becomes(startListening(this))
    /\ UNCHANGED <<rendered, restVars>>

StopListening ==
    /\ Becomes(stopListening(this))
    /\ UNCHANGED <<rendered, restVars>>

PauseListening ==
    /\ Becomes(pauseListening(this))
    /\ UNCHANGED <<rendered, restVars>>

SkipCurrent ==
    /\ Becomes(skipCurrent(this))
    /\ UNCHANGED <<rendered, restVars>>

ReplayCurrent ==
    /\ Becomes(replayCurrent(this))
    /\ UNCHANGED <<rendered, restVars>>

PlaybackAdvances ==
    \E i \in DOMAIN audios :
        /\ Playing(audios[i])
        /\ Becomes(playbackAdvances(this, i))
        /\ UNCHANGED <<rendered, restVars>>

Next ==
    \/ MutationCallback
    \/ ResponseArrives
    \/ StartListening
    \/ StopListening
    \/ PauseListening
    \/ SkipCurrent
    \/ ReplayCurrent
    \/ PlaybackAdvances

Spec == Init /\ [][Next]_vars

-----------------------------------------------------------------------------
(* Specification of the voice commands: the recognition runs from startListening
   to stopListening, so a transcript finds the script listening, with or without
   a narration in the player *)

\* listening on a page, nothing narrated yet
ListeningOn(page) == startListening(Constructed(page))

\* listening on a page, the first new post narrated and in the player
NarratingOn(page) ==
    responseArrives(mutationCallback(ListeningOn(page), <<PageNode(<<2>>)>>), 1, "audio")

VoiceInit ==
    /\ \E page \in InitialPages :
           \/ Starts(ListeningOn(page))
           \/ 2 \notin {page[i] : i \in DOMAIN page} /\ Starts(NarratingOn(page))
    /\ NoChunking
    /\ NothingHeard
    /\ NoCandidate
    /\ NoInjection
    /\ NoPopup

HearCommand ==
    \E heard \in Utterances :
        LET r == onresult(this, heard) IN
        /\ isListening
        /\ Becomes(r.state)
        /\ transcript' = heard
        /\ called' = r.called
        /\ UNCHANGED <<rendered, chunkVars, popupVars, candidate, world>>

VoiceNext ==
    \/ HearCommand
    \/ PlaybackAdvances

VoiceSpec == VoiceInit /\ [][VoiceNext]_vars

-----------------------------------------------------------------------------
(* Specification of the popup, the background script and the content script of
   the active tab. The popup is opened on a tab whose content script, if there
   is one, is idle, listening or narrating. *)

PopupInit ==
    /\ variant \in PopupVariants
    /\ tab \in Tabs
    /\ \/ tab # "script" /\ Starts(Constructed(<<>>)) /\ recognizing = FALSE
       \/ /\ tab = "script"
          /\ \/ \E page \in InitialPages :
                   Starts(Constructed(page)) /\ recognizing = FALSE
             \/ Starts(ListeningOn(<<3>>)) /\ recognizing \in BOOLEAN
             \/ Starts(NarratingOn(<<3>>)) /\ recognizing \in BOOLEAN
    /\ popup = NewPopup
    /\ commands = <<>>
    /\ digests = <<>>
    /\ status = NoResponse
    /\ NoChunking
    /\ NothingHeard
    /\ NoCandidate
    /\ NoInjection

contentVars == <<pipelineVars, chunkVars, voiceVars, candidate, world>>

\* a click on Start or Stop in the popup
Click ==
    \E action \in {"startListening", "stopListening"} :
        /\ Len(commands) < MaxCommands
        /\ popup' = showLoading(popup, TRUE)
        /\ commands' = Append(commands, NewCommand(variant, action))
        /\ UNCHANGED <<variant, tab, recognizing, digests, status, contentVars>>

\* popup.js: chrome.tabs.query answers
QueryReturns ==
    \E n \in DOMAIN commands :
        LET command == commands[n] IN
        /\ command.stage = "query"
        /\ IF tab # "none"
           THEN /\ commands' = [commands EXCEPT ![n].stage = "toTab"]
                /\ UNCHANGED popup
           ELSE LET after == IF command.action = "startListening"
                             THEN Caught(popup, StartFailed(variant))
                             ELSE popupStopResumes(popup, variant, NoResponse)
                IN  /\ popup' = after
                    /\ commands' = [commands EXCEPT ![n].stage = "done",
                                      ![n].outcome = OutcomeOf(popup, after)]
        /\ UNCHANGED <<variant, tab, recognizing, digests, status, contentVars>>

\* part_000: the background listener gets the command, asks for the active tab
\* and answers at once
BackgroundReceives ==
    \E n \in DOMAIN commands :
        /\ commands[n].stage = "toBackground"
        /\ commands' = [commands EXCEPT ![n].stage = "reply", ![n].response = Success,
                                        ![n].forward = "queued"]
        /\ UNCHANGED <<variant, tab, recognizing, popup, digests, status, contentVars>>

\* the background's chrome.tabs.query callback: if (tabs[0]) sendMessage
BackgroundForwards ==
    \E n \in DOMAIN commands :
        /\ commands[n].forward = "queued"
        /\ commands' = [commands EXCEPT
                           ![n].forward = IF tab = "none" THEN "dropped" ELSE "sent"]
        /\ UNCHANGED <<variant, tab, recognizing, popup, digests, status, contentVars>>

\* chrome.tabs.sendMessage reaches the tab: the content script's listener runs
\* handleMessage, or nothing listens
TabReceives ==
    \E n \in DOMAIN commands :
        LET command == commands[n]
            r == handleMessage(this, recognizing, command.action)
        IN  /\ command.stage = "toTab" \/ command.forward = "sent"
            /\ IF tab = "script"
               THEN /\ Becomes(r.state)
                    /\ recognizing' = r.recognizing
                    /\ commands' =
                         IF command.stage = "toTab"
                         THEN [commands EXCEPT ![n].stage = "reply",
                                  ![n].response = r.response, ![n].applied = TRUE]
                         ELSE [commands EXCEPT ![n].forward = "delivered",
                                  ![n].applied = TRUE]
               ELSE /\ UNCHANGED <<isListening, extractedPosts, audioPlayer, audios,
                                   requests, pending, failed, recognizing>>
                    /\ commands' =
                         IF command.stage = "toTab"
                         THEN [commands EXCEPT ![n].stage = "reply",
                                  ![n].response = Rejected]
                         ELSE [commands EXCEPT ![n].forward = "dropped"]
            /\ UNCHANGED <<variant, tab, popup, digests, status, rendered, chunkVars,
                           voiceVars, candidate, world>>

\* the answer reaches the popup: the rest of startListening / stopListening
PopupResumes ==
    \E n \in DOMAIN commands :
        LET command == commands[n]
            after == popupResumes(popup, variant, n, command, command.response)
        IN  /\ command.stage = "reply"
            /\ popup' = after
            /\ commands' = [commands EXCEPT ![n].stage = "done",
                               ![n].outcome = OutcomeOf(popup, after)]
            /\ UNCHANGED <<variant, tab, recognizing, digests, status, contentVars>>

\* the recognition ends by itself (no speech, microphone refused)
RecognitionEnds ==
    /\ recognizing
    /\ recognizing' = FALSE
    /\ UNCHANGED <<variant, tab, popup, commands, digests, status, contentVars>>

\* loadInitialState: the popup asks the content script for its status
GetStatus ==
    LET r == handleMessage(this, recognizing, "getStatus") IN
    /\ tab = "script"
    /\ Becomes(r.state)
    /\ recognizing' = r.recognizing
    /\ status' = r.response
    /\ UNCHANGED <<variant, tab, popup, commands, digests, rendered, chunkVars,
                   voiceVars, candidate, world>>

\* a click on the digest button: generateDigest up to "await fetch"
ClickDigest ==
    /\ Len(digests) < MaxDigests
    /\ popup' = showLoading(popup, TRUE)
    /\ digests' = Append(digests, "inFlight")
    /\ UNCHANGED <<variant, tab, recognizing, commands, status, contentVars>>

\* the backend answers a digest request
DigestResponds ==
    \E n \in DOMAIN digests, outcome \in DigestOutcomes :
        /\ digests[n] = "inFlight"
        /\ popup' = generateDigestResumes(popup, variant, outcome)
        /\ digests' = [digests EXCEPT ![n] = outcome]
        /\ UNCHANGED <<variant, tab, recognizing, commands, status, contentVars>>

PopupNext ==
    \/ Click
    \/ QueryReturns
    \/ BackgroundReceives
    \/ BackgroundForwards
    \/ TabReceives
    \/ PopupResumes
    \/ RecognitionEnds
    \/ GetStatus

PopupSpec == PopupInit /\ [][PopupNext]_vars

-----------------------------------------------------------------------------
-----------------------------------------------------------------------------
(* Specification of the popup next to the other controls of the content script:
   the popup is open on a tab with the content script and has loaded its
   status; the page's overlay buttons, the context menu and the voice commands
   act on the content script meanwhile *)

\* loadInitialState after its awaits: updateStatus(response.isListening)
loadInitialState(p, response) ==
    IF "isListening" \in DOMAIN response
    THEN [p EXCEPT !.isListening = response.isListening]
    ELSE p

SyncInit ==
    /\ variant \in PopupVariants
    /\ tab = "script"
    /\ \/ Starts(Constructed(<<3>>)) /\ recognizing = FALSE
       \/ Starts(ListeningOn(<<3>>)) /\ recognizing = TRUE
    /\ popup = loadInitialState(NewPopup,
                                handleMessage(this, recognizing, "getStatus").response)
    /\ commands = <<>>
    /\ digests = <<>>
    /\ status = NoResponse
    /\ NoChunking
    /\ NothingHeard
    /\ candidate = <<>>
    /\ world = NoWorld

\* a click on the overlay's Play or Stop button (setupPlayerEvents)
OverlayClick ==
    \/ /\ Becomes(startListening(this))
       /\ recognizing' = TRUE
       /\ UNCHANGED <<variant, tab, popup, commands, digests, status, rendered,
                      chunkVars, voiceVars, candidate, world>>
    \/ /\ Becomes(stopListening(this))
       /\ recognizing' = FALSE
       /\ UNCHANGED <<variant, tab, popup, commands, digests, status, rendered,
                      chunkVars, voiceVars, candidate, world>>

\* a click on a context-menu item: the background sends the action to the tab
\* and expects no answer
ContextMenuClick ==
    \E action \in {"startListening", "stopListening"} :
        /\ Len(commands) < MaxCommands
        /\ commands' = Append(commands,
                              [action |-> action, stage |-> "done",
                               response |-> NoResponse, forward |-> "sent",
                               applied |-> FALSE, outcome |-> "menu"])
        /\ UNCHANGED <<variant, tab, recognizing, popup, digests, status, contentVars>>

SyncNext ==
    \/ Click
    \/ QueryReturns
    \/ BackgroundReceives
    \/ BackgroundForwards
    \/ TabReceives
    \/ PopupResumes
    \/ OverlayClick
    \/ ContextMenuClick
    \/ HearCommand

SyncSpec == SyncInit /\ [][SyncNext]_vars

(* Specification of the popup's digest button *)

DigestInit ==
    /\ variant \in PopupVariants
    /\ tab = "script"
    /\ Starts(Constructed(<<>>))
    /\ recognizing = FALSE
    /\ popup = NewPopup
    /\ commands = <<>>
    /\ digests = <<>>
    /\ status = NoResponse
    /\ NoChunking
    /\ NothingHeard
    /\ NoCandidate
    /\ NoInjection

DigestNext ==
    \/ ClickDigest
    \/ DigestResponds

DigestSpec == DigestInit /\ [][DigestNext]_vars

-----------------------------------------------------------------------------
(* Specification of extractPostFromElement on bounded texts: the script, idle
   or listening, is handed one element after the other *)

\* textContent of the elements: empty, blank, of 9 and of 10 characters with and
\* without padding, with one and with two inner spaces, of 11 characters
CandidateTexts ==
    {<<>>,
     <<" ", " ", " ">>,
     <<"a", "a", "a", "a", "a", "a", "a", "a", "a">>,
     <<" ", "a", "a", "a", "a", "a", "a", "a", "a", "a", " ">>,
     <<"a", "a", "a", "a", "a", "a", "a", "a", "a", "a">>,
     <<" ", "a", "a", "a", "a", "a", "a", "a", "a", "a", "a", " ">>,
     <<"a", "a", "a", "a", " ", "a", "a", "a", "a", "a", "a">>,
     <<"a", "a", "a", "a", " ", " ", "a", "a", "a", "a", "a", "a">>,
     <<"b", "b", "b", "b", "b", "b", "b", "b", "b", "b", "b">>}

ExtractInit ==
    /\ Starts(Constructed(<<>>)) \/ Starts(ListeningOn(<<>>))
    /\ NoChunking
    /\ NothingHeard
    /\ NoCandidate
    /\ NoInjection
    /\ NoPopup

ExtractCandidate ==
    \E raw \in CandidateTexts :
        /\ Becomes(extractPostFromText(this, raw))
        /\ candidate' = <<raw>>
        /\ UNCHANGED <<rendered, chunkVars, voiceVars, popupVars, world>>

ExtractNext == ExtractCandidate

ExtractSpec == ExtractInit /\ [][ExtractNext]_vars

-----------------------------------------------------------------------------
(* Specification of chunk_text on bounded inputs *)

ChunkInit ==
    /\ Starts(Constructed(<<>>))
    /\ text \in ChunkTexts
    /\ max_size \in 1..MaxChunkSize
    /\ chunks = <<>>
    /\ pc = "call"
    /\ NothingHeard
    /\ NoCandidate
    /\ NoInjection
    /\ NoPopup

CallChunkText ==
    /\ pc = "call"
    /\ chunks' = chunk_text(text, max_size)
    /\ pc' = "done"
    /\ UNCHANGED <<text, max_size, pipelineVars, voiceVars, popupVars, candidate,
                   world>>

ChunkNext == CallChunkText

ChunkSpec == ChunkInit /\ [][ChunkNext]_vars

-----------------------------------------------------------------------------
(* Specification of the injection: a tab that navigates, reports updates to the
   background script and shows a feed; the instances of the content script
   are the entries of world.instances *)

InjectInit ==
    /\ Starts(Constructed(<<>>))
    /\ NoChunking
    /\ NothingHeard
    /\ candidate = <<>>
    /\ NoPopup
    /\ world = NewDocument("example.org", <<>>)

Navigates ==
    \E site \in Sites, page \in InitialPages :
        /\ world' = NewDocument(site, page)
        /\ UNCHANGED <<pipelineVars, chunkVars, voiceVars, popupVars, candidate>>

TabUpdated ==
    \E changeStatus \in {"loading", "complete"} :
        /\ world.injections < MaxInjections
        /\ world' = onUpdated(world, changeStatus)
        /\ UNCHANGED <<pipelineVars, chunkVars, voiceVars, popupVars, candidate>>

TabMessage ==
    \E action \in {"startListening", "stopListening"} :
        /\ world.instances # <<>>
        /\ world' = tabMessage(world, action)
        /\ UNCHANGED <<pipelineVars, chunkVars, voiceVars, popupVars, candidate>>

DocumentMutates ==
    \E batch \in OneNodeBatches :
        /\ world.instances # <<>>
        /\ world' = documentMutates(world, batch)
        /\ UNCHANGED <<pipelineVars, chunkVars, voiceVars, popupVars, candidate>>

NarrationArrives ==
    \E i \in DOMAIN world.instances :
        \E r \in world.instances[i].pending, outcome \in Outcomes :
            /\ world' = [world EXCEPT !.instances[i] = responseArrives(@, r, outcome)]
            /\ UNCHANGED <<pipelineVars, chunkVars, voiceVars, popupVars, candidate>>

InjectNext ==
    \/ Navigates
    \/ TabUpdated
    \/ TabMessage
    \/ DocumentMutates
    \/ NarrationArrives

InjectSpec == InjectInit /\ [][InjectNext]_vars

-----------------------------------------------------------------------------

(* Claims about chunk_text, checked under ChunkSpec *)

RECURSIVE Concat(_)
Concat(seqs) == IF seqs = <<>> THEN <<>> ELSE Head(seqs) \o Concat(Tail(seqs))

RECURSIVE NonSpace(_)
\* a text without its whitespace
NonSpace(s) ==
    IF s = <<>> THEN <<>>
    ELSE IF IsSpace(Head(s)) THEN NonSpace(Tail(s))
    ELSE <<Head(s)>> \o NonSpace(Tail(s))

NoWordLongerThanMax ==
    \A i \in DOMAIN SplitWords(text) : Len(SplitWords(text)[i]) <= max_size

\* every sentence is at most a third of max_size long
ShortSentences ==
    \A i \in DOMAIN SplitSentences(text) : 3 * Len(SplitSentences(text)[i]) <= max_size

\* C2: every chunk chunk_text returns is at most max_size long, for every text
\* and every max_size.
C2_ChunksWithinMaxSize ==
    pc = "done" => \A i \in DOMAIN chunks : Len(chunks[i]) <= max_size

\* C3: for a text without a word longer than max_size, the chunks concatenated
\* in order hold the content of the text: the same characters in the same
\* order, whitespace aside.
C3_ChunksReconstructText ==
    (pc = "done" /\ NoWordLongerThanMax) => NonSpace(Concat(chunks)) = NonSpace(text)

\* C4: a text no longer than max_size comes back as exactly one chunk, the
\* text itself.
C4_ShortTextIsOneChunk ==
    (pc = "done" /\ Len(text) <= max_size) => chunks = <<text>>

\* C4 witness: chunk_text has returned for a text of exactly max_size
\* characters that holds a sentence break.
C4_Witness ==
    /\ pc = "done"
    /\ Len(text) = max_size
    /\ Len(SplitSentences(text)) > 1
    /\ chunks = <<text>>

\* C5: a text between two and three times max_size long, made of sentences much
\* shorter than max_size, is split into exactly 3 chunks, each at most max_size
\* long, that concatenate to the text, whitespace aside.
C5_ThreeChunks ==
    (/\ pc = "done"
     /\ 2 * max_size < Len(text)
     /\ Len(text) <= 3 * max_size
     /\ ShortSentences)
    => /\ Len(chunks) = 3
       /\ \A i \in DOMAIN chunks : Len(chunks[i]) <= max_size
       /\ NonSpace(Concat(chunks)) = NonSpace(text)

\* the words of the sentences of a text that are longer than max
LongWords(t, max) ==
    {w \in UNION {{SplitWords(SplitSentences(t)[i])[j] :
                       j \in DOMAIN SplitWords(SplitSentences(t)[i])} :
                  i \in DOMAIN SplitSentences(t)} : Len(w) > max}

\* C31: every chunk chunk_text returns is non-empty, and a word longer than
\* max_size comes out as one chunk holding exactly its first max_size
\* characters.
C31_NonEmptyAndLongWordTruncated ==
    pc = "done" =>
        /\ \A i \in DOMAIN chunks : chunks[i] # <<>>
        /\ \A w \in LongWords(text, max_size) :
               \E i \in DOMAIN chunks : chunks[i] = SubSeq(w, 1, max_size)

-----------------------------------------------------------------------------
(* Claims about the content script, checked under Spec *)

RequestsFor(c) == Cardinality({i \in DOMAIN requests : requests[i].content = c})

CurrentUnfinished ==
    /\ audioPlayer # 0
    /\ audios[audioPlayer].currentTime < Duration

\* C1: a post that two or more mutation batches delivered while listening have
\* rendered has exactly one /posts/process request issued for it.
C1_ExactlyOneRequest ==
    \A c \in PostContents : rendered[c] = "again" => RequestsFor(c) = 1

\* C6: with no transport command issued, every audio that has started plays to
\* its end: the arrival of a narration response never stops an audio that is
\* playing, whenever it arrives.
C6_PlayedToCompletion ==
    [][ResponseArrives =>
        \A i \in DOMAIN audios : Playing(audios[i]) => Playing(audios'[i])]_vars

\* C7: a narration response with audio that arrives while an audio unit is
\* current and unfinished (playing or paused) leaves that unit current and as
\* it was: not interrupted, not replaced, a paused unit still paused.
C7_EnqueueKeepsCurrent ==
    [][(ResponseArrives /\ CurrentUnfinished) =>
        /\ audioPlayer' = audioPlayer
        /\ audios'[audioPlayer] = audios[audioPlayer]]_vars

\* C8: after pause(), play() (the overlay Play button or the voice command,
\* both startListening) resumes the paused audio unit at the position it was
\* paused at: the same unit, the same position, no longer paused.
C8_PlayResumesPaused ==
    (CurrentUnfinished /\ audios[audioPlayer].paused) =>
        LET resumed == startListening(this) IN
        /\ resumed.audioPlayer = audioPlayer
        /\ resumed.audios[audioPlayer].currentTime = audios[audioPlayer].currentTime
        /\ ~resumed.audios[audioPlayer].paused

\* C9: stopListening() twice leaves the state stopListening() once leaves, and
\* while not listening no step records a post or issues a request: a mutation
\* batch delivered after stopListening() changes nothing, also with requests
\* of an earlier batch in flight.
C9_StopHaltsSubmission ==
    /\ [](LET stopped == stopListening(this) IN
            /\ stopListening(stopped) = stopped
            /\ \A batch \in Batches : mutationCallback(stopped, batch) = stopped)
    /\ [][~isListening =>
            (extractedPosts' = extractedPosts /\ requests' = requests)]_vars

\* C9 witness: stopListening() has run with a request of an earlier batch
\* still in flight and an audio created before it.
C9_Witness ==
    /\ ~isListening
    /\ pending # {}
    /\ audios # <<>>
    /\ audioPlayer = 0

\* C10: a narration response that arrives while not listening is discarded: no
\* audio is created or played and the pipeline stays stopped.
C10_LateResponseDiscarded ==
    [][(ResponseArrives /\ ~isListening) =>
        /\ audios' = audios
        /\ audioPlayer' = audioPlayer
        /\ ~isListening']_vars


-----------------------------------------------------------------------------
(* Voice command dispatch *)

\* the command the rules give when tried in the order pause|stop, skip|next,
\* play|start, replay
FirstRuleOf(command) ==
    IF Includes(command, KwPause) \/ Includes(command, KwStop) THEN "pauseListening"
    ELSE IF Includes(command, KwSkip) \/ Includes(command, KwNext) THEN "skipCurrent"
    ELSE IF Includes(command, KwPlay) \/ Includes(command, KwStart) THEN "startListening"
    ELSE IF Includes(command, KwReplay) THEN "replayCurrent"
    ELSE "none"

\* C11: a recognized utterance triggers the command of the first rule, in the
\* order pause|stop, skip|next, play|start, replay, whose keyword it contains,
\* and nothing when it contains no keyword
C11_FirstRuleInOrder ==
    transcript # <<>> => called = FirstRuleOf(ToLowerCase(transcript))

\* C12: an utterance that contains 'replay' and none of pause, stop, skip, next
\* triggers the replay command
C12_ReplayTriggersReplay ==
    LET command == ToLowerCase(transcript) IN
    (/\ Includes(command, KwReplay)
     /\ ~Includes(command, KwPause) /\ ~Includes(command, KwStop)
     /\ ~Includes(command, KwSkip) /\ ~Includes(command, KwNext))
    => called = "replayCurrent"

-----------------------------------------------------------------------------
(* Observation of the feed *)

\* C13: while listening, the callback submits every added node of the delivered
\* batch to the extractor exactly once, the nodes of no other batch among them
C13_EachAddedNodeSubmittedOnce ==
    [][\A batch \in Batches :
          (isListening /\ Becomes(mutationCallback(this, batch))
                       /\ rendered' = CountBatch(batch))
          => SubmittedNodes(this, batch, 1) = [i \in 1..Len(batch) |-> i]]_vars


-----------------------------------------------------------------------------
(* Status query and commands of the popup *)

\* C14: a getStatus query answers with the current isListening flag, the
\* platform and the number of posts in the dedup set, and changes neither
\* isListening, extractedPosts nor the audio player
C14_GetStatusReportsAndKeeps ==
    [][GetStatus =>
          /\ status' = [isListening |-> isListening, platform |-> currentPlatform,
                        postsExtracted |-> Cardinality(extractedPosts)]
          /\ UNCHANGED <<isListening, extractedPosts, audioPlayer, audios>>]_vars

\* a listening content script with two recorded posts and a narration in the
\* player has answered a status query
C14_Witness ==
    /\ status = [isListening |-> TRUE, platform |-> currentPlatform,
                 postsExtracted |-> 2]
    /\ isListening
    /\ audioPlayer # 0

\* C15: the popup takes a start/stop command for a success only when the
\* content script of the active tab has applied it, and for a failure
\* otherwise; an unknown action is answered with an error and changes no state
C15_SuccessOnlyWhenApplied ==
    /\ \A n \in DOMAIN commands :
          /\ commands[n].outcome = "success" => commands[n].applied
          /\ (commands[n].stage = "done" /\ ~commands[n].applied)
                => commands[n].outcome = "failure"
    /\ LET r == handleMessage(this, recognizing, "unknown") IN
       r.response = UnknownAction /\ r.state = this

-----------------------------------------------------------------------------
(* Failed narration requests *)

\* C16: a narration request that fails leaves isListening and the dedup set as
\* they are, and a later batch is extracted, deduplicated and submitted as if
\* the request had not failed
C16_FailureDoesNotHalt ==
    \A r \in pending, outcome \in Failures :
        LET f == responseArrives(this, r, outcome) IN
        /\ f.isListening = isListening
        /\ f.extractedPosts = extractedPosts
        /\ \A batch \in OneNodeBatches :
              mutationCallback(f, batch) =
                  [mutationCallback(this, batch) EXCEPT !.pending = @ \ {r},
                                                        !.failed = @ \cup {r}]

\* a request has failed and a request issued after it is outstanding
C16_Witness ==
    /\ isListening
    /\ \E r \in failed, q \in pending : q > r

\* C17: the post of a failed request stays in the dedup set and is requested
\* once only, however often it is observed again
C17_FailedPostNotRetried ==
    \A r \in failed :
        /\ IdOfContent(requests[r].content) \in extractedPosts
        /\ RequestsFor(requests[r].content) = 1

\* the post of a failed request was observed again while listening
C17_Witness ==
    \E r \in failed :
        /\ rendered[requests[r].content] = "again"
        /\ isListening
        /\ pending = {}

\* C18: every audio belongs to a request that was answered without failure, a
\* failing response plays nothing, and it is reported
C18_AudioOnlyOnSuccess ==
    /\ \A i \in DOMAIN audios : audios[i].request \notin failed \cup pending
    /\ \A r \in pending, outcome \in {"http_error", "network_error"} :
          LET f == responseArrives(this, r, outcome) IN
          /\ f.audios = audios
          /\ f.audioPlayer = audioPlayer
          /\ r \in f.failed

\* one request failed and plays nothing, another was narrated
C18_Witness ==
    /\ failed # {}
    /\ audios # <<>>
    /\ \A i \in DOMAIN audios : audios[i].request \notin failed

-----------------------------------------------------------------------------
(* Digest *)

C20_OneDigestInFlight ==
    Cardinality({n \in DOMAIN digests : digests[n] = "inFlight"}) <= 1


-----------------------------------------------------------------------------
(* Requests in flight *)

\* C21: while requests are in flight, a later batch that renders a new post is
\* processed: the post is recorded and its request is issued
C21_InFlightDoesNotBlock ==
    \A t \in FeedTexts :
        (/\ isListening
         /\ pending # {}
         /\ Len(TrimmedText[t]) >= 10
         /\ PostIdOf[t] \notin extractedPosts)
        => LET r == mutationCallback(this, <<Node({}, <<Element(t, {1})>>)>>) IN
           /\ PostIdOf[t] \in r.extractedPosts
           /\ r.requests = Append(requests, [content |-> TrimmedText[t]])
           /\ r.pending = pending \cup {Len(requests) + 1}

\* the first request is unanswered, the second was issued and narrated
C21_Witness ==
    /\ pending = {1}
    /\ \E i \in DOMAIN audios : audios[i].request = 2

-----------------------------------------------------------------------------
(* Playback commands *)

\* C22: stop leaves the script not listening, without current audio and with
\* no audio playing
C22_StopLeavesNothingPlaying ==
    [][StopListening =>
          /\ ~isListening'
          /\ audioPlayer' = 0
          /\ \A i \in DOMAIN audios' : ~Playing(audios'[i])]_vars

\* stopped in the middle of a narration
C22_Witness ==
    /\ ~isListening
    /\ audioPlayer = 0
    /\ audios # <<>>
    /\ audios[Len(audios)].currentTime \in 1..(Duration - 1)

\* C23: replay puts the current audio at its start and keeps it paused if it
\* was paused and playing if it was playing; without current audio it changes
\* nothing
C23_ReplayKeepsState ==
    [][ReplayCurrent =>
          IF audioPlayer = 0 THEN UNCHANGED <<audios, audioPlayer, isListening>>
          ELSE LET before == audios[audioPlayer]
                   after == audios'[audioPlayer]
               IN  /\ after.currentTime = 0
                   /\ Playing(before) => Playing(after)
                   /\ (before.paused /\ before.currentTime < Duration) => after.paused]_vars

\* C24: after skip the skipped audio is not the current one any more: a replay
\* that follows does not play it
C24_SkipDiscardsCurrent ==
    [][(SkipCurrent /\ audioPlayer # 0) =>
          /\ audioPlayer' # audioPlayer
          /\ ~Playing(replayCurrent(this').audios[audioPlayer])]_vars

-----------------------------------------------------------------------------
(* Extraction from a batch *)

\* the step is the callback's run on the batch
CallbackOn(batch) ==
    /\ Becomes(mutationCallback(this, batch))
    /\ rendered' = CountBatch(batch)

\* C25: while listening, every post that a batch renders is recorded after the
\* callback, whatever happens to the other nodes and candidates of the batch
C25_BatchNeverAborted ==
    [][\A batch \in Batches :
          (isListening /\ CallbackOn(batch))
          => \A c \in ContentsOf(batch) : IdOfContent(c) \in extractedPosts']_vars

\* C26: while listening, an added node that itself matches a rule and has a
\* text of at least 10 characters is recorded after the callback
C26_SelfNodeExtracted ==
    [][\A batch \in Batches :
          (isListening /\ CallbackOn(batch))
          => \A i \in DOMAIN batch :
                (/\ batch[i].selfRules # {}
                 /\ Len(TrimmedText[textContent(batch[i])]) >= 10)
                => PostIdOf[textContent(batch[i])] \in extractedPosts']_vars

\* the added nodes that hold an element matched by more than one rule
MultiRuleNodes ==
    {node \in FeedNodes :
        \E j \in DOMAIN node.found : Cardinality(node.found[j].rules) > 1}

\* C27: an element that several rules match is recorded once and requested
\* once at most: no post is requested twice, and the callback's run on a node
\* that holds such an element adds one id and one request at most
C27_OneCandidatePerElement ==
    /\ [](\A c \in PostContents : RequestsFor(c) <= 1)
    /\ [][\/ /\ Len(requests') <= Len(requests) + 1
             /\ Cardinality(extractedPosts') <= Cardinality(extractedPosts) + 1
          \/ \A node \in MultiRuleNodes :
                ~(isListening /\ CallbackOn(<<node>>))]_vars

\* one post was rendered once while listening and requested once
C27_Witness ==
    /\ isListening
    /\ Len(requests) = 1
    /\ requests[1].content = TrimmedText[2]
    /\ rendered[TrimmedText[2]] = "once"
    /\ rendered[TrimmedText[3]] = "never"

-----------------------------------------------------------------------------
(* Candidates and their ids *)

\* the number of posts a status query reports
PostsReported(s) == handleMessage(s, FALSE, "getStatus").response.postsExtracted

\* C28: an element whose trimmed text has fewer than 10 characters changes
\* neither the dedup set, the status count nor the requests; an element whose
\* trimmed text has 10 characters or more is in the dedup set afterwards
C28_ShortCandidateRejected ==
    [][ExtractCandidate =>
          LET t == Strip(candidate'[1]) IN
          IF Len(t) < 10
          THEN /\ extractedPosts' = extractedPosts
               /\ PostsReported(this') = PostsReported(this)
               /\ requests' = requests
          ELSE generatePostId(t) \in extractedPosts']_vars

\* a padded text of 9 characters was rejected after a text of 10 was accepted
C28_Witness ==
    /\ candidate = << <<" ", "a", "a", "a", "a", "a", "a", "a", "a", "a", " ">> >>
    /\ isListening
    /\ Len(requests) = 1
    /\ Len(requests[1].content) = 10
    /\ Cardinality(extractedPosts) = 1

RECURSIVE Collapse(_)
\* the text with every run of spaces made one space
Collapse(s) ==
    IF Len(s) < 2 THEN s
    ELSE IF IsSpace(s[1]) /\ IsSpace(s[2]) THEN Collapse(Tail(s))
    ELSE <<Head(s)>> \o Collapse(Tail(s))

\* C29: two candidates whose texts are equal once their whitespace is collapsed
\* get the same id, so that the second is dropped: no two requests carry such
\* texts
C29_IdOfCollapsedText ==
    \A i, j \in DOMAIN requests :
        i # j => Collapse(requests[i].content) # Collapse(requests[j].content)

\* C30: no step takes an id out of the dedup set, and no request is issued for
\* a post whose id is in it
C30_DedupSetOnlyGrows ==
    [][/\ extractedPosts \subseteq extractedPosts'
       /\ \A i \in DOMAIN requests' \ DOMAIN requests :
             IdOfContent(requests'[i].content) \notin extractedPosts]_vars

\* a post was narrated, the script was stopped and started again, and the post
\* was rendered again
C30_Witness ==
    /\ isListening
    /\ audioPlayer = 0
    /\ audios # <<>>
    /\ rendered[requests[audios[1].request].content] = "again"
    /\ RequestsFor(requests[audios[1].request].content) = 1

\* C32: a mutation batch delivered while not listening is dropped, not queued:
\* startListening() after it leaves the state startListening() without it
\* leaves, startListening() itself records no post and issues no request, and
\* a post no batch has rendered while listening has no request.
C32_IdleBatchesDropped ==
    /\ \A c \in PostContents : rendered[c] = "never" => RequestsFor(c) = 0
    /\ ~isListening =>
          /\ startListening(this).extractedPosts = extractedPosts
          /\ startListening(this).requests = requests
          /\ startListening(this).pending = pending
          /\ \A batch \in Batches :
                 startListening(mutationCallback(this, batch)) = startListening(this)

\* C32 witness: listening has started again after an idle period in which a
\* post was still unseen, and that post has no request.
C32_Witness ==
    /\ isListening
    /\ requests # <<>>
    /\ audioPlayer = 0
    /\ audios # <<>>
    /\ \E c \in PostContents :
           /\ rendered[c] = "never"
           /\ IdOfContent(c) \notin extractedPosts
           /\ RequestsFor(c) = 0

-----------------------------------------------------------------------------
(* Voice 'stop' *)

RECURSIVE ReplaceWord(_, _, _)
\* str with every occurrence of old, left to right, replaced by new
ReplaceWord(str, old, new) ==
    IF Len(str) < Len(old) THEN str
    ELSE IF SubSeq(str, 1, Len(old)) = old
    THEN new \o ReplaceWord(SubSeq(str, Len(old) + 1, Len(str)), old, new)
    ELSE <<Head(str)>> \o ReplaceWord(Tail(str), old, new)

-----------------------------------------------------------------------------
(* The initial scan *)

\* C34: the scan the constructor runs while not listening records every post
\* of the page in extractedPosts and sends none, and a post recorded without a
\* request never gets one: no step, a batch that renders it again while
\* listening included, issues a request for it.
C34_InitialPostsNeverSubmitted ==
    /\ [](\A page \in InitialPages :
            LET s == Constructed(page) IN
            /\ ~s.isListening
            /\ s.requests = <<>>
            /\ \A i \in DOMAIN page : PostIdOf[page[i]] \in s.extractedPosts)
    /\ [][\A c \in PostContents :
            (IdOfContent(c) \in extractedPosts /\ RequestsFor(c) = 0)
            => (IdOfContent(c) \in extractedPosts' /\ RequestsFor(c)' = 0)]_vars

\* C34 witness: a post of the initial page was rendered again in two batches
\* while listening and has no request, while another post was narrated.
C34_Witness ==
    /\ isListening
    /\ \E c \in PostContents :
           /\ rendered[c] = "again"
           /\ IdOfContent(c) \in extractedPosts
           /\ RequestsFor(c) = 0
    /\ audios # <<>>

-----------------------------------------------------------------------------
(* One audio at a time *)

\* C35: at most one audio element is playing at any time, and it is the
\* current one, under every interleaving of narration responses and commands.
C35_AtMostOnePlaying ==
    /\ Cardinality({i \in DOMAIN audios : Playing(audios[i])}) <= 1
    /\ \A i \in DOMAIN audios : Playing(audios[i]) => audioPlayer = i

\* C35 witness: a second narration arrived while the first audio was playing:
\* the first is paused where it was and the second is playing.
C35_Witness ==
    /\ Len(audios) >= 2
    /\ audios[1].paused
    /\ audios[1].currentTime \in 1..(Duration - 1)
    /\ audioPlayer = 2
    /\ Playing(audios[2])

-----------------------------------------------------------------------------
(* Injection *)

\* the requests for a post text that the instances of the document have issued
RequestsOfInstances(c) ==
    {<<i, r>> \in (DOMAIN world.instances) \X (1..2) :
        /\ r \in DOMAIN world.instances[i].requests
        /\ world.instances[i].requests[r].content = c}

\* C36: however many times content.js is injected into a document, the
\* document holds at most one pipeline instance (one observer, one dedup set,
\* one message listener), and no post is requested twice.
C36_OneInstancePerPage ==
    /\ Len(world.instances) <= 1
    /\ world.declared <=> Len(world.instances) = 1
    /\ \A c \in PostContents : Cardinality(RequestsOfInstances(c)) <= 1

\* C36 witness: the script was injected into the same document more than once
\* and the document's instance has requested a post.
C36_Witness ==
    /\ world.injections >= 2
    /\ Len(world.instances) = 1
    /\ world.instances[1].requests # <<>>

-----------------------------------------------------------------------------
(* The popup's flag and the content script's flag *)

\* no start or stop command of the popup is on its way
NoCommandInFlight ==
    \A n \in DOMAIN commands :
        /\ commands[n].stage = "done"
        /\ commands[n].forward \notin {"queued", "sent"}

\* C37: whenever no command is in flight, the popup's isListening equals the
\* content script's isListening, after any sequence of popup clicks, overlay
\* clicks, context-menu clicks and voice commands.
C37_PopupFlagMatchesContent ==
    NoCommandInFlight => popup.isListening = isListening

-----------------------------------------------------------------------------
(* Failed operations of the popup *)

\* answers with which a start has failed
FailedAcks == {NoResponse, Rejected, UnknownAction, [success |-> FALSE]}

\* a start fails where it stands: no active tab at the query, or an answer that
\* is not a success
StartFailsAt(command) ==
    /\ command.action = "startListening"
    /\ \/ command.stage = "query" /\ tab = "none"
       \/ command.stage = "reply" /\ command.response # Success

\* C38: a start of the popup that fails (no active tab, a message that throws,
\* an answer that is missing or not a success) leaves the popup's isListening,
\* startTime and timer as they were, shows the error and hides the loading
\* indicator; the loading indicator is hidden after every start, stop and
\* digest operation, successful or not.
C38_FailedStartLeavesPopup ==
    /\ [](/\ \A response \in FailedAcks :
                LET after == popupStartResumes(popup, variant, 1, response) IN
                /\ after.isListening = popup.isListening
                /\ after.startTime = popup.startTime
                /\ after.timer = popup.timer
                /\ after.error = StartFailed(variant)
                /\ ~after.loading
          /\ \A response \in FailedAcks \cup {Success} :
                /\ ~popupStartResumes(showLoading(popup, TRUE), variant, 1, response).loading
                /\ ~popupStopResumes(showLoading(popup, TRUE), variant, response).loading
          /\ \A outcome \in DigestOutcomes :
                ~generateDigestResumes(showLoading(popup, TRUE), variant, outcome).loading)
    /\ [][\A n \in DOMAIN commands :
            (commands[n].stage # "done" /\ commands'[n].stage = "done") =>
                /\ ~popup'.loading
                /\ StartFailsAt(commands[n]) =>
                      /\ popup'.isListening = popup.isListening
                      /\ popup'.startTime = popup.startTime
                      /\ popup'.timer = popup.timer
                      /\ popup'.error = StartFailed(variant)
                      /\ commands'[n].outcome = "failure"]_vars

\* C38 witness: a first start succeeded and a second start failed: the popup
\* still listens with the start time and the timer of the first, shows the
\* error and no loading indicator.
C38_Witness ==
    /\ Len(commands) = 2
    /\ commands[1].action = "startListening" /\ commands[1].outcome = "success"
    /\ commands[2].action = "startListening" /\ commands[2].outcome = "failure"
    /\ popup.isListening
    /\ popup.startTime = 1
    /\ popup.timer
    /\ popup.error = StartFailed(variant)
    /\ ~popup.loading

=============================================================================
